---- MODULE Spec2Model ----
(***************************************************************************)
(* Model of import_hitfilm_composite (blender_hitfilm_importer.py): the    *)
(* import of a HitFilm composite (.hfcs) document into a Blender scene.    *)
(* The document is the input; the scene, the parsed channel lists and the  *)
(* position of the import in its code are the state.  Sample values        *)
(* (coordinates, zoom) are abstracted to the ordinal of the sample in its  *)
(* channel; keyframes record the frame and the ordinal of the sample.      *)
(* Keyframe elements of the camera channels are taken to be well-formed    *)
(* (each has its point, orientation or value child with numeric content);  *)
(* the settings block and the PointLayers may be malformed.                 *)
(***************************************************************************)
EXTENDS Integers, Sequences, FiniteSets

\* ---------------------------------------------------------------- bounds
MaxLen == 2        \* most keyframes in one camera channel of a document
MaxAnchors == 3    \* most PointLayer elements in a document

\* ---------------------------------------------------------------- inputs
\* Text of Width / Height / FrameRate: element absent, element without text
\* (<Width/>, text None), text that int() rejects, or a number.  "0" is a
\* number int() accepts.
Absent == "absent"
Empty == "empty"
NonNumeric == "nan"
ZeroWidth == "0"
DocWidth == "1280"
DocHeight == "720"
DocFrameRate == "30"

\* int() of the numeric texts the documents use
IntOf(t) ==
    IF t = "0" THEN 0
    ELSE IF t = "1280" THEN 1280
    ELSE IF t = "720" THEN 720
    ELSE 30

\* Time attribute of a position keyframe: -1 is a missing attribute
\* (key.get('Time') is None), otherwise the recorded value.
TimeVals == {-1, 0, 5}

\* PointLayer kinds: well-formed, without a Name element, without the
\* default position element.
AnchorKinds == {"ok", "noName", "noPos"}

SeqsUpTo(S, n) == UNION {[1..k -> S] : k \in 0..n}

Ordinals(n) == [k \in 1..n |-> k]

\* A channel: is there an Animation element, and its keyframe children.
NoChannel == [anim |-> FALSE, keys |-> <<>>]

PositionChannels ==
    {NoChannel} \cup {[anim |-> TRUE, keys |-> ks] : ks \in SeqsUpTo(TimeVals, MaxLen)}

SampleChannels ==
    {NoChannel} \cup {[anim |-> TRUE, keys |-> Ordinals(n)] : n \in 0..MaxLen}

NoCamera ==
    [present |-> FALSE, position |-> NoChannel, orientation |-> NoChannel,
     zoom |-> NoChannel]

Cameras ==
    {NoCamera} \cup
    {[present |-> TRUE, position |-> p, orientation |-> r, zoom |-> z] :
        p \in PositionChannels, r \in SampleChannels, z \in SampleChannels}

NoSettings ==
    [block |-> FALSE, Width |-> Absent, Height |-> Absent, FrameRate |-> Absent]

Settings ==
    {NoSettings} \cup
    {[block |-> TRUE, Width |-> w, Height |-> h, FrameRate |-> f] :
        w \in {Absent, Empty, NonNumeric, ZeroWidth, DocWidth},
        h \in {Absent, Empty, NonNumeric, DocHeight},
        f \in {Absent, Empty, NonNumeric, DocFrameRate}}

\* The scene before the import (Blender's startup scene).
DefaultScene ==
    [resolution_x |-> 1920, resolution_y |-> 1080, fps |-> 24,
     frame_end |-> 250, frame_current |-> 1]

VARIABLES
    avSettings,     \* document: the AudioVideoSettings block
    cameraNode,     \* document: the first CameraLayer and its channels
    anchorNodes,    \* document: the PointLayer elements, in document order
    pc,             \* position of the import in its code
    result,         \* "none", the returned status, or the exception raised
    scene,          \* C.scene: render settings, frame_end, frame_current
    timeKeys,       \* Time attributes of the position keyframes read
    camPositions,   \* position samples read
    camRotations,   \* orientation samples read
    camZoomVals,    \* zoom samples read
    cameraObjects,  \* number of camera objects added to the scene
    lensKeys,       \* keyframes of data.lens: [frame, sample]
    locRotKeys,     \* location/rotation keyframes: [frame, sample]
    markers,        \* empties added, in order: [anchor, named]
    i,              \* index of the frame loop
    a               \* index of the anchor loop

doc == <<avSettings, cameraNode, anchorNodes>>
lists == <<timeKeys, camPositions, camRotations, camZoomVals>>
objects == <<cameraObjects, lensKeys, locRotKeys, markers>>
vars == <<doc, pc, result, scene, lists, objects, i, a>>

Init ==
    /\ avSettings \in Settings
    /\ cameraNode \in Cameras
    /\ anchorNodes \in SeqsUpTo(AnchorKinds, MaxAnchors)
    /\ pc = "settings"
    /\ result = "none"
    /\ scene = DefaultScene
    /\ timeKeys = <<>>
    /\ camPositions = <<>>
    /\ camRotations = <<>>
    /\ camZoomVals = <<>>
    /\ cameraObjects = 0
    /\ lensKeys = {}
    /\ locRotKeys = {}
    /\ markers = <<>>
    /\ i = 0
    /\ a = 1

\* The import ends: a returned status or an uncaught exception.
Ends(r) ==
    /\ pc' = "done"
    /\ result' = r

\* ------------------------------------------------------ scene settings
\* int(avSettingsNode.find(tag).text): the exception raised, or "ok".
ParseInt(t) ==
    IF t = Absent THEN "AttributeError"
    ELSE IF t = Empty THEN "TypeError"
    ELSE IF t = NonNumeric THEN "ValueError"
    ELSE "ok"

\* The first failure of lines 66-69, or "ok".
SettingsError(s) ==
    IF ~s.block THEN "AttributeError"
    ELSE IF ParseInt(s.Width) # "ok" THEN ParseInt(s.Width)
    ELSE IF ParseInt(s.Height) # "ok" THEN ParseInt(s.Height)
    ELSE ParseInt(s.FrameRate)

\* Variant: the frame rate is parsed but never written to the scene.
WriteSettings_NoFps(sc, s) ==
    [sc EXCEPT !.resolution_x = IntOf(s.Width),
               !.resolution_y = IntOf(s.Height)]

\* Lines 70-72.
WriteSettings(sc, s) ==
    [sc EXCEPT !.resolution_x = IntOf(s.Width),
               !.resolution_y = IntOf(s.Height),
               !.fps = IntOf(s.FrameRate)]

\* Variant: each setting is written as soon as it is parsed, so the ones
\* before a failing one reach the scene.
ParseSettings_WriteAsParsed ==
    /\ pc = "settings"
    /\ IF SettingsError(avSettings) # "ok"
       THEN /\ Ends(SettingsError(avSettings))
            /\ scene' =
                 IF ~avSettings.block \/ ParseInt(avSettings.Width) # "ok"
                 THEN scene
                 ELSE IF ParseInt(avSettings.Height) # "ok"
                 THEN [scene EXCEPT !.resolution_x = IntOf(avSettings.Width)]
                 ELSE [scene EXCEPT !.resolution_x = IntOf(avSettings.Width),
                                    !.resolution_y = IntOf(avSettings.Height)]
       ELSE /\ scene' = WriteSettings(scene, avSettings)
            /\ pc' = "camera"
            /\ UNCHANGED result
    /\ UNCHANGED <<doc, lists, objects, i, a>>

\* Lines 61-72: all three values are parsed before any is written.
ParseSettings ==
    /\ pc = "settings"
    /\ IF SettingsError(avSettings) # "ok"
       THEN /\ Ends(SettingsError(avSettings))
            /\ UNCHANGED scene
       ELSE /\ scene' = WriteSettings(scene, avSettings)
            /\ pc' = "camera"
            /\ UNCHANGED result
    /\ UNCHANGED <<doc, lists, objects, i, a>>

\* Variant: a missing camera skips the camera part only; the anchors are
\* still imported.
FindCamera_SkipToAnchors ==
    /\ pc = "camera"
    /\ IF ~cameraNode.present
       THEN /\ pc' = "anchors"
            /\ UNCHANGED result
       ELSE /\ pc' = "position"
            /\ UNCHANGED result
    /\ UNCHANGED <<doc, scene, lists, objects, i, a>>

\* Lines 74-77.
FindCamera ==
    /\ pc = "camera"
    /\ IF ~cameraNode.present
       THEN Ends("CANCELLED")
       ELSE /\ pc' = "position"
            /\ UNCHANGED result
    /\ UNCHANGED <<doc, scene, lists, objects, i, a>>

\* ------------------------------------------------------ camera channels
\* Lines 86-93: one time key and one position sample per keyframe.
ReadPosition ==
    /\ pc = "position"
    /\ IF cameraNode.position.anim
       THEN /\ timeKeys' = cameraNode.position.keys
            /\ camPositions' = Ordinals(Len(cameraNode.position.keys))
       ELSE UNCHANGED <<timeKeys, camPositions>>
    /\ pc' = "orientation"
    /\ UNCHANGED <<doc, result, scene, camRotations, camZoomVals, objects, i, a>>

\* Variant: the comparison is made only when position keys were recorded.
LengthsMatch_NonEmpty(keys) == Len(timeKeys) = 0 \/ Len(timeKeys) = Len(keys)

\* The assertion of lines 99 and 108.
LengthsMatch(keys) == Len(timeKeys) = Len(keys)

\* Lines 95-102.
ReadRotation ==
    /\ pc = "orientation"
    /\ IF ~cameraNode.orientation.anim
       THEN /\ pc' = "zoom"
            /\ UNCHANGED <<result, camRotations>>
       ELSE IF ~LengthsMatch(cameraNode.orientation.keys)
       THEN /\ Ends("AssertionError")
            /\ UNCHANGED camRotations
       ELSE /\ camRotations' = cameraNode.orientation.keys
            /\ pc' = "zoom"
            /\ UNCHANGED result
    /\ UNCHANGED <<doc, scene, timeKeys, camPositions, camZoomVals, objects, i, a>>

\* Lines 104-111.
ReadZoom ==
    /\ pc = "zoom"
    /\ IF ~cameraNode.zoom.anim
       THEN /\ pc' = "frame_end"
            /\ UNCHANGED <<result, camZoomVals>>
       ELSE IF ~LengthsMatch(cameraNode.zoom.keys)
       THEN /\ Ends("AssertionError")
            /\ UNCHANGED camZoomVals
       ELSE /\ camZoomVals' = cameraNode.zoom.keys
            /\ pc' = "frame_end"
            /\ UNCHANGED result
    /\ UNCHANGED <<doc, scene, timeKeys, camPositions, camRotations, objects, i, a>>

\* ------------------------------------------------------ camera animation
\* len(timeKeys) of lines 114 and 128.
FrameCount == Len(timeKeys)

\* Line 114.
SetFrameEnd ==
    /\ pc = "frame_end"
    /\ scene' = [scene EXCEPT !.frame_end = FrameCount]
    /\ pc' = "camera_add"
    /\ UNCHANGED <<doc, result, lists, objects, i, a>>

\* Lines 123-126.
AddCamera ==
    /\ pc = "camera_add"
    /\ cameraObjects' = cameraObjects + 1
    /\ i' = 0
    /\ pc' = "loop"
    /\ UNCHANGED <<doc, result, scene, lists, lensKeys, locRotKeys, markers, a>>

\* Variant: the frame is the Time attribute recorded for the k-th key.
FrameIndex_Time(k) == timeKeys[k + 1]

\* The frame the k-th iteration of the loop of line 128 works on.
FrameIndex(k) == k

\* Lines 128-129: the next iteration sets the current frame, or the loop ends.
FrameSet ==
    /\ pc = "loop"
    /\ IF i < FrameCount
       THEN /\ scene' = [scene EXCEPT !.frame_current = FrameIndex(i)]
            /\ pc' = "lens"
       ELSE /\ pc' = "reset"
            /\ UNCHANGED scene
    /\ UNCHANGED <<doc, result, lists, objects, i, a>>

\* Line 67: the local the settings' Width is parsed into.
width == IntOf(avSettings.Width)

\* Lines 43-47: the division by compWidthInMM (line 46) raises for width 0.
zoomToLens(compWidthInPixels) ==
    IF compWidthInPixels = 0 THEN "ZeroDivisionError" ELSE "ok"

\* Lines 132-133: camZoomVals[i] raises when the list is too short, then
\* zoomToLens raises when the width is 0.
KeyLens ==
    /\ pc = "lens"
    /\ IF i >= Len(camZoomVals)
       THEN /\ Ends("IndexError")
            /\ UNCHANGED lensKeys
       ELSE IF zoomToLens(width) # "ok"
       THEN /\ Ends(zoomToLens(width))
            /\ UNCHANGED lensKeys
       ELSE /\ lensKeys' = lensKeys \cup
                  {[frame |-> FrameIndex(i), sample |-> camZoomVals[i + 1]]}
            /\ pc' = "locrot"
            /\ UNCHANGED result
    /\ UNCHANGED <<doc, scene, lists, cameraObjects, locRotKeys, markers, i, a>>

\* Lines 136-150: camRotations[i] raises when the list is too short; the
\* keying set inserts at the scene's current frame.
KeyLocRot ==
    /\ pc = "locrot"
    /\ IF i >= Len(camRotations)
       THEN /\ Ends("IndexError")
            /\ UNCHANGED <<locRotKeys, i>>
       ELSE /\ locRotKeys' = locRotKeys \cup
                  {[frame |-> scene.frame_current, sample |-> camPositions[i + 1]]}
            /\ i' = i + 1
            /\ pc' = "loop"
            /\ UNCHANGED result
    /\ UNCHANGED <<doc, scene, lists, cameraObjects, lensKeys, markers, a>>

\* The frame of line 152.
RestFrame == 0

\* Variant: the current frame is left where the frame loop ended.
ResetFrame_Missing ==
    /\ pc = "reset"
    /\ a' = 1
    /\ pc' = "anchors"
    /\ UNCHANGED <<doc, result, scene, lists, objects, i>>

\* Line 152.
ResetFrame ==
    /\ pc = "reset"
    /\ scene' = [scene EXCEPT !.frame_current = RestFrame]
    /\ a' = 1
    /\ pc' = "anchors"
    /\ UNCHANGED <<doc, result, lists, objects, i>>

\* ------------------------------------------------------ anchor points
\* Variant: a malformed PointLayer is skipped and the loop goes on.
AddAnchor_Skip ==
    /\ pc = "anchors"
    /\ a <= Len(anchorNodes)
    /\ IF anchorNodes[a] = "ok"
       THEN markers' = Append(markers, [anchor |-> a, named |-> TRUE])
       ELSE UNCHANGED markers
    /\ a' = a + 1
    /\ UNCHANGED <<pc, result>>
    /\ UNCHANGED <<doc, scene, lists, cameraObjects, lensKeys, locRotKeys, i>>

\* Lines 156-167, one PointLayer: a missing position raises at line 159,
\* before the empty is added; a missing Name raises at line 164, after it.
AddAnchor ==
    /\ pc = "anchors"
    /\ a <= Len(anchorNodes)
    /\ IF anchorNodes[a] = "noPos"
       THEN /\ Ends("AttributeError")
            /\ UNCHANGED <<markers, a>>
       ELSE IF anchorNodes[a] = "noName"
       THEN /\ markers' = Append(markers, [anchor |-> a, named |-> FALSE])
            /\ Ends("AttributeError")
            /\ UNCHANGED a
       ELSE /\ markers' = Append(markers, [anchor |-> a, named |-> TRUE])
            /\ a' = a + 1
            /\ UNCHANGED <<pc, result>>
    /\ UNCHANGED <<doc, scene, lists, cameraObjects, lensKeys, locRotKeys, i>>

\* Line 169.
ReturnFinished ==
    /\ pc = "anchors"
    /\ a > Len(anchorNodes)
    /\ Ends("FINISHED")
    /\ UNCHANGED <<doc, scene, lists, objects, i, a>>

Next ==
    \/ ParseSettings
    \/ FindCamera
    \/ ReadPosition
    \/ ReadRotation
    \/ ReadZoom
    \/ SetFrameEnd
    \/ AddCamera
    \/ FrameSet
    \/ KeyLens
    \/ KeyLocRot
    \/ ResetFrame
    \/ AddAnchor
    \/ ReturnFinished

Spec == Init /\ [][Next]_vars

TypeOK ==
    /\ pc \in {"settings", "camera", "position", "orientation", "zoom",
               "frame_end", "camera_add", "loop", "lens", "locrot", "reset",
               "anchors", "done"}
    /\ result \in {"none", "FINISHED", "CANCELLED", "AttributeError",
                   "TypeError", "ValueError", "AssertionError", "IndexError",
                   "ZeroDivisionError"}
    /\ (pc = "done") <=> (result # "none")
    /\ cameraObjects \in 0..1
    /\ i \in 0..MaxLen
    /\ a \in 1..(MaxAnchors + 1)

\* ------------------------------------------------------ properties
Done == pc = "done"
ValidSettings == SettingsError(avSettings) = "ok"
NPos == Len(cameraNode.position.keys)
NRot == Len(cameraNode.orientation.keys)
NZoom == Len(cameraNode.zoom.keys)
AllAnchorsOk == \A k \in 1..Len(anchorNodes) : anchorNodes[k] = "ok"
KeyFrames(K) == {k.frame : k \in K}
\* One keyframe of K at each frame 0..n-1, of the sample at that index.
KeyedExactly(K, n) == K = {[frame |-> f, sample |-> f + 1] : f \in 0..(n - 1)}
\* The scene after the settings of the document were written, and nothing else.
SettingsOnlyScene ==
    [DefaultScene EXCEPT !.resolution_x = (IF avSettings.Width = ZeroWidth THEN 0 ELSE 1280),
                         !.resolution_y = 720, !.fps = 30]
NoObjects ==
    /\ cameraObjects = 0
    /\ markers = <<>>
    /\ lensKeys = {}
    /\ locRotKeys = {}
AllNonEmpty ==
    /\ cameraNode.present
    /\ NPos >= 1 /\ NRot >= 1 /\ NZoom >= 1
\* All three channels present, with equal lengths, and a width the lens
\* conversion accepts: the camera part succeeds.
ValidCamera ==
    /\ cameraNode.present
    /\ width # 0
    /\ cameraNode.position.anim /\ cameraNode.orientation.anim /\ cameraNode.zoom.anim
    /\ NPos = NRot /\ NRot = NZoom
Malformed == {k \in 1..Len(anchorNodes) : anchorNodes[k] # "ok"}
FirstMalformed == CHOOSE m \in Malformed : \A k \in Malformed : m <= k

\* C1 (as stated): valid settings, no CameraLayer and k >= 1 well-formed
\* PointLayers: the import creates k markers and returns Cancelled.
C1_Original ==
    (Done /\ ValidSettings /\ ~cameraNode.present /\ AllAnchorsOk
          /\ Len(anchorNodes) >= 1)
    => (Len(markers) = Len(anchorNodes) /\ result = "CANCELLED")

\* C1 (amended): valid settings, no CameraLayer and k >= 1 well-formed
\* PointLayers: the import returns Cancelled and creates no marker at all.
C1_NoCameraNoMarkers ==
    (Done /\ ValidSettings /\ ~cameraNode.present /\ AllAnchorsOk
          /\ Len(anchorNodes) >= 1)
    => (markers = <<>> /\ result = "CANCELLED")

C1_Witness ==
    /\ Done /\ ValidSettings /\ ~cameraNode.present
    /\ anchorNodes = <<"ok", "ok">>
    /\ result = "CANCELLED"

\* C2: with position, rotation and zoom all non-empty, equal lengths N give
\* exactly N synchronized frames (a lens and a location/rotation keyframe at
\* each of 0..N-1, none elsewhere, frame_end N); any difference in length
\* ends the import with the failed assertion and no keyframe.
C2_Synchronized ==
    (Done /\ ValidSettings /\ AllNonEmpty)
    => IF NPos = NRot /\ NRot = NZoom
       THEN /\ result \in {"FINISHED", "AttributeError"}
            /\ scene.frame_end = NPos
            /\ KeyedExactly(lensKeys, NPos)
            /\ KeyedExactly(locRotKeys, NPos)
       ELSE /\ result = "AssertionError"
            /\ lensKeys = {} /\ locRotKeys = {}

\* C3 (as stated): with no position samples and the non-empty ones among
\* rotation and zoom equal in length, the import does not fail with a length
\* mismatch and the frame count is that common length.
C3_Original ==
    (Done /\ ValidSettings /\ cameraNode.present /\ NPos = 0
          /\ (NRot >= 1 \/ NZoom >= 1)
          /\ (NRot >= 1 /\ NZoom >= 1 => NRot = NZoom))
    => /\ result # "AssertionError"
       /\ scene.frame_end = (IF NRot >= 1 THEN NRot ELSE NZoom)

\* C3 (amended): every rotation or zoom channel that is present is compared
\* with the number of position keys, zero when there are none: with no
\* position samples and a non-empty rotation or zoom channel the import fails
\* with the length mismatch, before frame_end is written; and whenever the
\* checks pass the frame count is the number of position keys.
C3_PositionIsReference ==
    (Done /\ ValidSettings /\ cameraNode.present)
    => /\ (NPos = 0 /\ (NRot >= 1 \/ NZoom >= 1))
            => (result = "AssertionError" /\ scene = SettingsOnlyScene /\ NoObjects)
       /\ result # "AssertionError"
            => /\ scene.frame_end = NPos
               /\ cameraNode.orientation.anim => NRot = NPos
               /\ cameraNode.zoom.anim => NZoom = NPos

C3_Witness ==
    /\ Done /\ ValidSettings /\ cameraNode.present
    /\ ~cameraNode.position.anim
    /\ NRot = MaxLen /\ NZoom = MaxLen
    /\ result = "AssertionError"

\* C4: with one channel absent and the present ones of a common length
\* N > 0 (and well-formed anchors) the import runs through every frame and
\* returns Finished, keying the present channels only.
C4_AbsentChannelSkipped ==
    (Done /\ ValidSettings /\ cameraNode.present /\ AllAnchorsOk
          /\ cameraNode.position.anim /\ cameraNode.orientation.anim
          /\ ~cameraNode.zoom.anim
          /\ NPos >= 1 /\ NRot = NPos)
    => /\ result = "FINISHED"
       /\ KeyedExactly(locRotKeys, NPos)
       /\ lensKeys = {}

\* C5: with the settings block missing, or any of Width, Height, FrameRate
\* missing, without text or non-numeric, the import raises and the scene is never touched:
\* no setting is written, frame_end and the current frame keep their values,
\* no object or keyframe is created.
C5_NoSettingsNoChange ==
    ~ValidSettings
    => /\ scene = DefaultScene
       /\ NoObjects
       /\ pc \in {"settings", "done"}
       /\ Done => result \in {"AttributeError", "TypeError", "ValueError"}

C5_Witness ==
    /\ Done
    /\ avSettings.block
    /\ avSettings.Width = DocWidth
    /\ avSettings.Height = NonNumeric
    /\ result = "ValueError"

\* C6: valid settings and no CameraLayer: the import returns Cancelled, the
\* resolution and frame rate are those of the document, and frame_end, the
\* current frame, the camera objects and the keyframes are unchanged.
C6_CancelledKeepsSettings ==
    (Done /\ ValidSettings /\ ~cameraNode.present)
    => /\ result = "CANCELLED"
       /\ scene = SettingsOnlyScene
       /\ cameraObjects = 0
       /\ lensKeys = {} /\ locRotKeys = {}

C6_Witness ==
    /\ Done /\ ~cameraNode.present
    /\ result = "CANCELLED"
    /\ scene.resolution_x = 1280 /\ scene.resolution_y = 720 /\ scene.fps = 30
    /\ scene.frame_end = DefaultScene.frame_end

\* C7 (as stated): with a valid camera, a PointLayer without Name or position
\* fails alone: every well-formed PointLayer has its marker and the import
\* returns Finished.
C7_Original ==
    (Done /\ ValidSettings /\ ValidCamera /\ Malformed # {})
    => /\ result = "FINISHED"
       /\ \A k \in 1..Len(anchorNodes) :
            anchorNodes[k] = "ok"
            => \E m \in 1..Len(markers) : markers[m].anchor = k

\* C7 (amended): with a valid camera, the first PointLayer without Name or
\* position ends the import with an exception: exactly the PointLayers before
\* it have their named marker, none after it has one, and the one without a
\* Name leaves an unnamed marker behind.
C7_FirstMalformedAborts ==
    (Done /\ ValidSettings /\ ValidCamera /\ Malformed # {})
    => /\ result = "AttributeError"
       /\ markers =
            [k \in 1..(FirstMalformed - 1) |-> [anchor |-> k, named |-> TRUE]]
            \o (IF anchorNodes[FirstMalformed] = "noName"
                THEN <<[anchor |-> FirstMalformed, named |-> FALSE]>>
                ELSE <<>>)

C7_Witness ==
    /\ Done /\ ValidSettings /\ ValidCamera
    /\ anchorNodes = <<"ok", "noPos", "ok">>
    /\ Len(markers) = 1
    /\ result = "AttributeError"

\* C8: an import that does not return Finished leaves no camera, marker or
\* keyframe and no changed frame_end; only the settings write of the
\* missing-camera case may survive.
C8_NoPartialScene ==
    (Done /\ result # "FINISHED")
    => /\ NoObjects
       /\ scene.frame_end = DefaultScene.frame_end
       /\ scene.frame_current = DefaultScene.frame_current
       /\ result # "CANCELLED" => scene = DefaultScene

\* C9: frame_end is the frame count before the camera exists; frames are
\* keyed in ascending order, each after the current frame was set to it,
\* the lens keyframe of a frame before its location/rotation keyframe;
\* markers are created only after all frames are keyed and the current
\* frame is back at 0, where it is when the import returns Finished.
C9_Order ==
    /\ [](cameraObjects > 0 => scene.frame_end = FrameCount)
    /\ [][lensKeys' # lensKeys
            => /\ cameraObjects = 1
               /\ scene.frame_current = i
               /\ lensKeys' = lensKeys \cup {[frame |-> i, sample |-> i + 1]}
               /\ KeyFrames(lensKeys) = 0..(i - 1)
               /\ KeyFrames(locRotKeys) = 0..(i - 1)]_vars
    /\ [][locRotKeys' # locRotKeys
            => /\ scene.frame_current = i
               /\ locRotKeys' = locRotKeys \cup {[frame |-> i, sample |-> i + 1]}
               /\ KeyFrames(lensKeys) = 0..i
               /\ KeyFrames(locRotKeys) = 0..(i - 1)]_vars
    /\ [][markers' # markers
            => /\ scene.frame_current = 0
               /\ KeyFrames(lensKeys) = 0..(FrameCount - 1)
               /\ KeyFrames(locRotKeys) = 0..(FrameCount - 1)
               /\ UNCHANGED <<scene, lensKeys, locRotKeys>>]_vars
    /\ [](result = "FINISHED"
            => /\ scene.frame_current = 0
               /\ scene.frame_end = FrameCount
               /\ KeyedExactly(lensKeys, FrameCount)
               /\ KeyedExactly(locRotKeys, FrameCount)
               /\ Len(markers) = Len(anchorNodes))

C9_Witness ==
    /\ Done /\ result = "FINISHED"
    /\ FrameCount = MaxLen
    /\ Len(markers) >= 1
    /\ scene.frame_current = 0

\* C10: the frame of a keyed sample is its index in the channel, whatever
\* the Time attributes of the position keys are: every keyframe is at a frame
\* of 0..N-1 and of the sample at that index, and a finished import has
\* keyframes at exactly 0..N-1 and frame_end N, N the number of position keys.
C10_TimeIndependent ==
    (Done /\ ValidSettings /\ cameraNode.present /\ cameraNode.position.anim)
    => /\ \A k \in lensKeys \cup locRotKeys :
            k.frame \in 0..(NPos - 1) /\ k.sample = k.frame + 1
       /\ result = "FINISHED"
            => /\ KeyFrames(lensKeys) = 0..(NPos - 1)
               /\ KeyFrames(locRotKeys) = 0..(NPos - 1)
               /\ scene.frame_end = NPos

C10_Witness ==
    /\ Done /\ result = "FINISHED"
    /\ Len(timeKeys) = 2
    /\ timeKeys[1] = 5 /\ timeKeys[2] = -1
    /\ KeyFrames(lensKeys) = {0, 1}
====
